---- MODULE Spec2Model ----
(***************************************************************************)
(* A model of RunTracker (src/RunTracker.py): the tracking table kept in   *)
(* memory, the class-level template dictionary, the pickled snapshot on    *)
(* disk, and the operations load (RunTracker(pipeline_data)) and update.   *)
(*                                                                         *)
(* Python dictionaries are objects: a record of the table is a REFERENCE   *)
(* to a dictionary.  The model keeps a heap: tracking_data maps a pipeline *)
(* name to a reference, and a reference is either TemplateRef (the class   *)
(* attribute _template_subdict itself) or the name of an object that       *)
(* pickle.load created.  pickle keeps sharing: two names that refer to one *)
(* dictionary when the table is dumped refer to one dictionary when it is  *)
(* read back.                                                              *)
(***************************************************************************)
EXTENDS Integers, Sequences, FiniteSets, TLC

\* ------------------------------------------------------------------ bounds
MaxTime == 3        \* the clock runs from 1 to MaxTime

\* --------------------------------------------------------------- constants
Names == {"p", "q"}                       \* pipeline names a caller may use
NameOrder == <<"p", "pickle_cant_be_empty", "q">>
Placeholder == "pickle_cant_be_empty"
TemplateRef == "_template_subdict"
Fields == {"last trigger", "last error", "interval", "schedule"}
Insts == {1, 2}                           \* RunTracker instances of a process
SingleInst == {1}

\* ------------------------------------------------------------------ values
\* A Python value is a tagged integer: None, a datetime (v = its instant,
\* 0 = datetime(1,1,1)), a timedelta (v = its length, possibly 0 or
\* negative) or a string (v = its length).
None == [k |-> "none", v |-> 0]
DT(n) == [k |-> "dt", v |-> n]
TD(n) == [k |-> "td", v |-> n]
Str(n) == [k |-> "str", v |-> n]

\* bool(x) of Python: None, timedelta(0) and "" are falsy, every datetime
\* is truthy.
Truthy(x) ==
    CASE x.k = "none" -> FALSE
      [] x.k = "dt" -> TRUE
      [] OTHER -> x.v # 0

\* a // b of Python for integers: the floor of the quotient, b # 0
FloorDiv(a, b) == IF b > 0 THEN a \div b ELSE (0 - a) \div (0 - b)

EmptyFn == [n \in {} |-> None]

\* _template_subdict as the class body creates it
Template0 ==
    [f \in Fields |-> IF f \in {"last trigger", "last error"} THEN DT(0) ELSE None]

\* ------------------------------------------------------------------- state
VARIABLES
    template,       \* the contents of RunTracker._template_subdict
    file,           \* the snapshot: [exists, tab: name -> object, obj: object -> record]
    constructed,    \* the instances whose constructor has returned
    tracking_data,  \* per instance: name -> reference
    heap,           \* per instance: the objects pickle.load created
    now,            \* datetime.datetime.now()
    last,           \* the last call, its outcome, the names it inserted (new) and
                    \* completed (filled), whether it repeats the call before it
    pipe,           \* the Pipeline instance: what __init__ was given and kept
    data,           \* self.data of the Pipeline, Absent while the attribute is unset
    fs,             \* the files that exist
    pc,             \* the stage run() executes next, "idle" outside a run
    run             \* the Pipeline call in progress or last made, and what it did

tvars == <<template, file, constructed, tracking_data, heap, now, last>>
pvars == <<pipe, data, fs, pc, run>>
vars == <<template, file, constructed, tracking_data, heap, now, last,
          pipe, data, fs, pc, run>>

NoFile == [exists |-> FALSE, tab |-> EmptyFn, obj |-> EmptyFn]

\* the mapping name -> record that a table or a snapshot denotes
Deref(tpl, ob, ref) == IF ref = TemplateRef THEN tpl ELSE ob[ref]
TableView(tab, ob, tpl) == [n \in DOMAIN tab |-> Deref(tpl, ob, tab[n])]
View(i) == TableView(tracking_data[i], heap[i], template)
FileView == TableView(file.tab, file.obj, Template0)

\* ------------------------------------------------------------ persistence
Rank(n) == CHOOSE i \in 1..Len(NameOrder) : NameOrder[i] = n
MinName(S) == CHOOSE n \in S : \A m \in S : Rank(n) <= Rank(m)

\* pickle.dump(self.tracking_data, f): the whole table is written, and the
\* names that refer to the template dictionary are written as ONE object
\* (pickle memoises objects), named here after the least of those names.
Dump(tab, ob, tpl) ==
    LET shared == {n \in DOMAIN tab : tab[n] = TemplateRef}
        rep == IF shared = {} THEN TemplateRef ELSE MinName(shared)
        ftab == [n \in DOMAIN tab |-> IF tab[n] = TemplateRef THEN rep ELSE tab[n]]
        reps == {ftab[n] : n \in DOMAIN tab}
    IN  [exists |-> TRUE,
         tab |-> ftab,
         obj |-> [r \in reps |-> IF r = rep THEN tpl ELSE ob[r]]]

\* pickle.dump({"pickle_cant_be_empty": self._template_subdict}, f)
BootstrapEmpty(tpl) == Dump(EmptyFn, EmptyFn, tpl)
Bootstrap(tpl) == Dump((Placeholder :> TemplateRef), EmptyFn, tpl)

\* ---------------------------------------------------------- reconciliation
\* A reconciliation in progress: the table, the loaded objects, the
\* template and whether a KeyError was raised.
StoreField(st, ref, f, v) ==
    IF ref = TemplateRef
    THEN [st EXCEPT !.tpl = (f :> v) @@ st.tpl]
    ELSE [st EXCEPT !.ob[ref] = (f :> v) @@ st.ob[ref]]

\* lines 46-48: a subkey missing from a record is copied from the template
BackfillAll(rec, tpl) ==
    [f \in DOMAIN rec \cup DOMAIN tpl |-> IF f \in DOMAIN tpl THEN tpl[f] ELSE rec[f]]
BackfillNone(rec, tpl) == rec
Backfill(rec, tpl) ==
    [f \in DOMAIN rec \cup DOMAIN tpl |-> IF f \in DOMAIN rec THEN rec[f] ELSE tpl[f]]

\* lines 38-48, from the i-th entry of pipeline_data on
RECURSIVE ReconcileNames(_, _, _)
ReconcileNames(st, pd, i) ==
    IF i > Len(pd) THEN st
    ELSE LET name == pd[i].name IN
         IF name \notin DOMAIN st.tab
         THEN ReconcileNames([st EXCEPT !.tab = (name :> TemplateRef) @@ st.tab], pd, i + 1)
         ELSE LET ref == st.tab[name]
                  rec == Backfill(Deref(st.tpl, st.ob, ref), st.tpl)
              IN  ReconcileNames(
                      IF ref = TemplateRef THEN [st EXCEPT !.tpl = rec]
                                           ELSE [st EXCEPT !.ob[ref] = rec],
                      pd, i + 1)

\* the (key, subkey, value) triples that lines 51-55 visit, in order; an
\* empty or None val contributes nothing (line 52)
RECURSIVE Flatten(_, _)
Flatten(pd, i) ==
    IF i > Len(pd) THEN <<>>
    ELSE [j \in 1..Len(pd[i].val) |->
             [key |-> pd[i].name, subkey |-> pd[i].val[j][1], value |-> pd[i].val[j][2]]]
         \o Flatten(pd, i + 1)

\* line 54: the caller's value is applied where the stored one is falsy
OverrideAlways(x) == TRUE
OverrideNeeded(x) == ~Truthy(x)

\* lines 51-55, from the i-th triple on; a subkey the record lacks raises
\* KeyError at line 54 and ends the reconciliation
RECURSIVE ApplyDefaults(_, _, _)
ApplyDefaults(st, items, i) ==
    IF i > Len(items) \/ st.err THEN st
    ELSE LET it == items[i]
             ref == st.tab[it.key]
             rec == Deref(st.tpl, st.ob, ref)
         IN  IF it.subkey \notin DOMAIN rec
             THEN [st EXCEPT !.err = TRUE]
             ELSE ApplyDefaults(
                      IF OverrideNeeded(rec[it.subkey])
                      THEN StoreField(st, ref, it.subkey, it.value)
                      ELSE st,
                      items, i + 1)

\* lines 21-31: the open() calls of one load; a missing file costs one failed
\* attempt, then the recursive call of line 31 finds the file just written
ReadAttempts(f) == IF f.exists THEN 1 ELSE 2

\* _load_tracking_data up to the dump of line 58: the snapshot that is read
\* (bootstrapped when absent) and the reconciled table
Reconcile(f, tpl, pd) ==
    LET f1 == IF f.exists THEN f ELSE Bootstrap(tpl)
        st0 == [tab |-> f1.tab, ob |-> f1.obj, tpl |-> tpl, err |-> FALSE]
        st1 == ReconcileNames(st0, pd, 1)
    IN  [read |-> f1, st |-> ApplyDefaults(st1, Flatten(pd, 1), 1)]

\* ------------------------------------------------------------------ inputs
\* pipeline_data is a dict, visited in insertion order: a sequence of
\* entries [name, val], val being the sequence of (subkey, value) pairs of
\* the caller's defaults for that name (empty for None or {}).
\* Two names are given in the order of NameOrder: records of different
\* objects are reconciled independently of the order, and records that are
\* one object are reached by either name.
Entry(n, d) == [name |-> n, val |-> d]
PipelineDatasOf(names, singles, pairs) ==
    {<<>>}
    \cup {<<Entry(n, d)>> : n \in names, d \in singles}
    \cup {s \in {<<Entry(n, d), Entry(m, e)>> : n \in names, m \in names, d \in pairs, e \in pairs} :
            Rank(s[1].name) < Rank(s[2].name)}

\* the calls explored for reconciliation: two pipelines, defaults that are
\* absent, truthy, falsy or name a subkey no record has
DefaultsChoices ==
    { <<>>,
      << <<"interval", TD(2)>> >>,
      << <<"interval", TD(0)>> >>,
      << <<"owner", Str(3)>> >> }
PairChoices ==
    { <<>>, << <<"interval", TD(2)>> >>, << <<"interval", TD(0)>> >> }
PipelineDatas == PipelineDatasOf(Names, DefaultsChoices, PairChoices)

\* the calls explored for interval alignment: one pipeline, whose interval
\* and schedule the caller configures
AlignNames == {"p"}
AlignChoices ==
    { << <<"interval", TD(2)>> >>,
      << <<"schedule", Str(5)>> >>,
      << <<"interval", TD(2)>>, <<"schedule", Str(5)>> >>,
      << <<"interval", TD(0 - 2)>>, <<"schedule", Str(5)>> >>,
      << <<"interval", TD(0)>>, <<"schedule", Str(5)>> >> }
AlignDatas == PipelineDatasOf(AlignNames, AlignChoices, {})

\* the fields a caller updates
UpdateFields == {"last trigger", "last error"}
\* without a schedule both take line 71; reconciliation is explored with one
ReconcileFields == {"last error"}

NoCall == [op |-> "none", ok |-> TRUE, err |-> "", inst |-> 0, name |-> "", field |-> "",
           pd |-> <<>>, new |-> {}, filled |-> {}, again |-> FALSE, reads |-> 0, over |-> <<>>]

\* -------------------------------------------------------------- operations
\* RunTracker(pipeline_data), lines 16-31 and 33-61
Load(i, pd) ==
    LET r == Reconcile(file, template, pd)
        st == r.st
        call == [op |-> "load", ok |-> ~st.err, err |-> IF st.err THEN "KeyError" ELSE "",
                 inst |-> i, name |-> "", field |-> "",
                 pd |-> pd,
                 new |-> {pd[j].name : j \in 1..Len(pd)} \ DOMAIN r.read.tab,
                 filled |-> {n \in {pd[j].name : j \in 1..Len(pd)} \cap DOMAIN r.read.tab :
                               ~(Fields \subseteq DOMAIN r.read.obj[r.read.tab[n]])},
                 again |-> last.op = "load" /\ last.ok /\ last.inst = i /\ last.pd = pd,
                 reads |-> ReadAttempts(file), over |-> <<>>]
    IN  /\ template' = st.tpl
        /\ last' = call
        /\ UNCHANGED now
        /\ IF st.err
           THEN /\ file' = r.read
                /\ UNCHANGED <<constructed, tracking_data, heap>>
           ELSE /\ file' = Dump(st.tab, st.ob, st.tpl)
                /\ constructed' = constructed \cup {i}
                /\ tracking_data' = [tracking_data EXCEPT ![i] = st.tab]
                /\ heap' = [heap EXCEPT ![i] = st.ob]

\* lines 65-71 on the record of a known pipeline, at time t: the record
\* after the assignment, or the error raised before it
UpdateRecord(rec, f, t) ==
    IF f = "last trigger" /\ "schedule" \notin DOMAIN rec
    THEN [err |-> "KeyError", rec |-> rec]
    ELSE IF f = "last trigger" /\ Truthy(rec["schedule"])
    THEN IF ~({"last trigger", "interval"} \subseteq DOMAIN rec)
         THEN [err |-> "KeyError", rec |-> rec]
         ELSE IF rec["last trigger"].k # "dt" \/ rec["interval"].k # "td"
         THEN [err |-> "TypeError", rec |-> rec]
         ELSE IF rec["interval"].v = 0
         THEN [err |-> "ZeroDivisionError", rec |-> rec]
         ELSE LET T0 == rec["last trigger"].v
                  I == rec["interval"].v
              IN  [err |-> "",
                   rec |-> ("last trigger" :> DT(FloorDiv(t - T0, I) * I + T0)) @@ rec]
    ELSE [err |-> "", rec |-> (f :> DT(t)) @@ rec]

\* lines 65-71 for a name the table holds
UpdateKnown(tab, ob, tpl, p, f, t) ==
    LET ref == tab[p]
        r == UpdateRecord(Deref(tpl, ob, ref), f, t)
    IN  [err |-> r.err,
         tab |-> tab,
         ob |-> IF r.err = "" /\ ref # TemplateRef THEN [ob EXCEPT ![ref] = r.rec] ELSE ob,
         tpl |-> IF r.err = "" /\ ref = TemplateRef THEN r.rec ELSE tpl]

\* lines 65-71: self.tracking_data[pipeline_name] raises KeyError for a name
\* the table does not hold
UpdateInsertsMissing(tab, ob, tpl, p, f, t) ==
    UpdateKnown(IF p \in DOMAIN tab THEN tab ELSE (p :> TemplateRef) @@ tab, ob, tpl, p, f, t)
UpdateEffect(tab, ob, tpl, p, f, t) ==
    IF p \notin DOMAIN tab
    THEN [err |-> "KeyError", tab |-> tab, ob |-> ob, tpl |-> tpl]
    ELSE UpdateKnown(tab, ob, tpl, p, f, t)

\* lines 65-71 work on self.tracking_data, the table in memory: update
\* never opens the snapshot for reading
UpdateSourceReread(f, tab, ob) ==
    IF f.exists THEN [tab |-> f.tab, ob |-> f.obj] ELSE [tab |-> tab, ob |-> ob]
UpdateSource(f, tab, ob) == [tab |-> tab, ob |-> ob]

\* lines 72-73: the whole table replaces the snapshot
PersistKeepsUnknown(f, tab, ob, tpl) ==
    IF f.exists /\ ~(DOMAIN f.tab \subseteq DOMAIN tab) THEN f ELSE Dump(tab, ob, tpl)
KeepSnapshot(f, tab, ob, tpl) == f
PersistUpdate(f, tab, ob, tpl) == Dump(tab, ob, tpl)

\* update(pipeline_name, field), lines 64-73, called at time t
Update(i, p, f, t) ==
    LET src == UpdateSource(file, tracking_data[i], heap[i])
        u == UpdateEffect(src.tab, src.ob, template, p, f, t)
    IN
    /\ i \in constructed
    /\ t >= now
    /\ now' = t
    /\ last' = [op |-> "update", ok |-> u.err = "", err |-> u.err, inst |-> i,
                name |-> p, field |-> f, pd |-> <<>>, new |-> {}, filled |-> {},
                again |-> FALSE, reads |-> 0,
                over |-> IF last.op = "update" /\ last.ok /\ last.inst # i
                         THEN <<last.name, last.field>> ELSE <<>>]
    /\ UNCHANGED constructed
    /\ IF u.err # ""
       THEN UNCHANGED <<template, file, tracking_data, heap>>
       ELSE /\ template' = u.tpl
            /\ tracking_data' = [tracking_data EXCEPT ![i] = u.tab]
            /\ heap' = [heap EXCEPT ![i] = u.ob]
            /\ file' = PersistUpdate(file, u.tab, u.ob, u.tpl)

\* the process ends and a new one starts: the class body (lines 9-14) makes
\* a fresh template, no instance exists, the snapshot stays
Restart ==
    /\ constructed # {} \/ template # Template0
    /\ template' = Template0
    /\ constructed' = {}
    /\ tracking_data' = [i \in Insts |-> EmptyFn]
    /\ heap' = [i \in Insts |-> EmptyFn]
    /\ last' = [NoCall EXCEPT !.op = "restart"]
    /\ UNCHANGED <<file, now>>

\* ---------------------------------------------------------------- Pipeline
\* src/Pipeline.py: one Pipeline instance, its run() taken one stage at a
\* time, the stage callables succeeding or raising as the caller's code may.
MaxTargets == 2     \* the most targets in one trigger result

Paths == {"a.csv", "b.csv", "c.csv"}
Loaders == {"AzureLoader", "OtherLoader"}
Absent == "absent"
DataValues == {"raw", "cooked"}
StageOrder == <<"extract", "transform", "load", "check", "clean">>

\* what trigger() hands to run(): a list of paths, or a truthy value that
\* is not iterable (iter = FALSE), such as True
TriggerResults ==
    {[iter |-> TRUE, paths |-> q] : q \in UNION {[1..n -> Paths] : n \in 1..MaxTargets}}
    \cup {[iter |-> FALSE, paths |-> <<>>]}

Unbuilt == [built |-> FALSE, run_func |-> FALSE, loaderArg |-> "", loaderObj |-> ""]
NoRun == [call |-> "none", tr |-> [iter |-> FALSE, paths |-> <<>>], calls |-> <<>>,
          outcome |-> "none", failed |-> "", loader |-> "", inserted |-> Absent,
          removed |-> {}]

\* __init__, lines 35-43: rf tells whether a run_func was passed, ld is the
\* loaderObj argument; line 42 keeps AzureLoader whatever ld is
Construct(rf, ld) ==
    /\ ~pipe.built
    /\ pipe' = [built |-> TRUE, run_func |-> rf, loaderArg |-> ld, loaderObj |-> "AzureLoader"]
    /\ UNCHANGED <<data, fs, pc, run>>

\* lines 128-131: the custom function when one was passed, else extract
RunIgnoresRunFunc(rf) == "extract"
RunMode(rf) == IF rf THEN "run_func" ELSE "extract"

\* lines 131-135: the statement after a stage that returned
StageSkipsCheck(s) ==
    CASE s = "extract" -> "transform"
      [] s = "transform" -> "load"
      [] s = "load" -> "clean"
      [] OTHER -> "idle"
StageAfter(s) ==
    CASE s = "extract" -> "transform"
      [] s = "transform" -> "load"
      [] s = "load" -> "check"
      [] s = "check" -> "clean"
      [] OTHER -> "idle"

\* run() has no try: an exception of a stage leaves run() at once
AbortToClean(s) == "clean"
AbortTo(s) == "idle"

Returned(s) == [run EXCEPT !.calls = Append(@, s),
                           !.outcome = IF StageAfter(s) = "idle" THEN "returned" ELSE @]
Raised(s) == [run EXCEPT !.calls = Append(@, s), !.outcome = "raised", !.failed = s]

\* run(trigger_result), lines 119-130: the call starts
Run(tr) ==
    /\ pipe.built /\ pc = "idle"
    /\ pc' = RunMode(pipe.run_func)
    /\ run' = [NoRun EXCEPT !.call = "run", !.tr = tr, !.outcome = "running"]
    /\ UNCHANGED <<pipe, data, fs>>

\* line 129: the custom function, which returns or raises
RunFunc(ok) ==
    /\ pc = "run_func"
    /\ pc' = "idle"
    /\ run' = [run EXCEPT !.calls = Append(@, "run_func"),
                          !.outcome = IF ok THEN "returned" ELSE "raised",
                          !.failed = IF ok THEN "" ELSE "run_func"]
    /\ UNCHANGED <<pipe, data, fs>>

\* extract, lines 57-66: self.data = self._extractor_func(trigger_result)
Extract(ok, d) ==
    /\ pc = "extract"
    /\ IF ok THEN /\ data' = d
                  /\ pc' = StageAfter("extract")
                  /\ run' = Returned("extract")
             ELSE /\ pc' = AbortTo("extract")
                  /\ run' = Raised("extract")
                  /\ UNCHANGED data
    /\ UNCHANGED <<pipe, fs>>

\* transform, lines 69-78: self.data = self._transformer_func(self.data);
\* reading self.data raises AttributeError while the attribute is unset
Transform(ok, d) ==
    /\ pc = "transform"
    /\ IF ok /\ data # Absent
       THEN /\ data' = d
            /\ pc' = StageAfter("transform")
            /\ run' = Returned("transform")
       ELSE /\ pc' = AbortTo("transform")
            /\ run' = Raised("transform")
            /\ UNCHANGED data
    /\ UNCHANGED <<pipe, fs>>

\* load, lines 81-88: the loader is made from self._loaderObj, then
\* insert(self.data, table); making it or inserting may raise
LoadStage(ok) ==
    /\ pc = "load"
    /\ IF ok /\ data # Absent
       THEN /\ pc' = StageAfter("load")
            /\ run' = [Returned("load") EXCEPT !.loader = pipe.loaderObj, !.inserted = data]
       ELSE /\ pc' = AbortTo("load")
            /\ run' = [Raised("load") EXCEPT !.loader = pipe.loaderObj]
    /\ UNCHANGED <<pipe, data, fs>>

\* check, lines 91-97
Check(ok) ==
    /\ pc = "check"
    /\ pc' = IF ok THEN StageAfter("check") ELSE AbortTo("check")
    /\ run' = IF ok THEN Returned("check") ELSE Raised("check")
    /\ UNCHANGED <<pipe, data, fs>>

\* lines 109-111, from the i-th destination on: a destination that exists is
\* removed, one that does not is passed over
RECURSIVE RemoveUnchecked(_, _, _)
RemoveUnchecked(files, paths, i) ==
    IF i > Len(paths) THEN [err |-> "", fs |-> files]
    ELSE IF paths[i] \notin files THEN [err |-> "FileNotFoundError", fs |-> files]
    ELSE RemoveUnchecked(files \ {paths[i]}, paths, i + 1)
RECURSIVE RemoveExisting(_, _, _)
RemoveExisting(files, paths, i) ==
    IF i > Len(paths) THEN [err |-> "", fs |-> files]
    ELSE RemoveExisting(IF paths[i] \in files THEN files \ {paths[i]} ELSE files, paths, i + 1)

\* clean(trigger_result), lines 100-116: iterating a value that is not
\* iterable raises TypeError at line 109, before self.data is deleted
CleanEffect(tr, files, d) ==
    IF ~tr.iter THEN [err |-> "TypeError", fs |-> files, data |-> d]
    ELSE LET r == RemoveExisting(files, tr.paths, 1)
         IN  [err |-> r.err, fs |-> r.fs, data |-> IF r.err = "" THEN Absent ELSE d]

\* line 135: clean as the last stage of run()
Clean ==
    LET c == CleanEffect(run.tr, fs, data) IN
    /\ pc = "clean"
    /\ fs' = c.fs
    /\ data' = c.data
    /\ pc' = IF c.err = "" THEN StageAfter("clean") ELSE AbortTo("clean")
    /\ run' = IF c.err = "" THEN [Returned("clean") EXCEPT !.removed = fs \ c.fs]
                           ELSE Raised("clean")
    /\ UNCHANGED pipe

\* clean(trigger_result) called by the caller, outside run()
CleanCall(tr) ==
    LET c == CleanEffect(tr, fs, data) IN
    /\ pipe.built /\ pc = "idle"
    /\ fs' = c.fs
    /\ data' = c.data
    /\ run' = [NoRun EXCEPT !.call = "clean", !.tr = tr, !.calls = <<"clean">>,
                            !.outcome = IF c.err = "" THEN "returned" ELSE "raised",
                            !.failed = IF c.err = "" THEN "" ELSE "clean",
                            !.removed = fs \ c.fs]
    /\ UNCHANGED <<pipe, pc>>

\* a file comes to exist between calls (an extraction target arrives)
FileAppears(path) ==
    /\ pipe.built /\ pc = "idle"
    /\ path \notin fs
    /\ fs' = fs \cup {path}
    /\ UNCHANGED <<pipe, data, pc, run>>

PipeInit ==
    /\ pipe = Unbuilt
    /\ data = Absent
    /\ fs = {}
    /\ pc = "idle"
    /\ run = NoRun

\* a snapshot written by an earlier version whose records had one field
OldFile ==
    [exists |-> TRUE,
     tab |-> (Placeholder :> Placeholder) @@ ("p" :> "p"),
     obj |-> (Placeholder :> Template0) @@ ("p" :> ("last trigger" :> DT(1)))]
InitFiles == {NoFile, OldFile}

Init ==
    /\ template = Template0
    /\ file \in InitFiles
    /\ constructed = {}
    /\ tracking_data = [i \in Insts |-> EmptyFn]
    /\ heap = [i \in Insts |-> EmptyFn]
    /\ now = 1
    /\ last = NoCall
    /\ PipeInit

\* reconciliation and update of two pipelines, at one instant
Next ==
    \/ \E i \in SingleInst, pd \in PipelineDatas : Load(i, pd) /\ UNCHANGED pvars
    \/ \E i \in SingleInst, p \in Names, f \in ReconcileFields :
          Update(i, p, f, now) /\ UNCHANGED pvars
    \/ Restart /\ UNCHANGED pvars

Spec == Init /\ [][Next]_vars

\* configuration and update of one pipeline, under a clock that never
\* runs backward
NextAlign ==
    \/ \E i \in SingleInst, pd \in AlignDatas : Load(i, pd) /\ UNCHANGED pvars
    \/ \E i \in SingleInst, p \in Names, f \in UpdateFields, t \in now..MaxTime :
          Update(i, p, f, t) /\ UNCHANGED pvars
    \/ Restart /\ UNCHANGED pvars

SpecAlign == Init /\ [][NextAlign]_vars

\* two RunTracker instances of one process on the one snapshot file, each
\* loading and updating in any interleaving of their calls, at one instant
TwoDatas == PipelineDatasOf(Names, {<<>>}, {})
NextTwo ==
    \/ \E i \in Insts, pd \in TwoDatas : Load(i, pd) /\ UNCHANGED pvars
    \/ \E i \in Insts, p \in Names, f \in ReconcileFields :
          Update(i, p, f, now) /\ UNCHANGED pvars

SpecTwo == Init /\ [][NextTwo]_vars

\* one Pipeline, constructed once and run any number of times, the
\* tracking store left alone
NextPipe ==
    \/ \E rf \in BOOLEAN, ld \in Loaders : Construct(rf, ld) /\ UNCHANGED tvars
    \/ \E tr \in TriggerResults : Run(tr) /\ UNCHANGED tvars
    \/ \E ok \in BOOLEAN : RunFunc(ok) /\ UNCHANGED tvars
    \/ \E ok \in BOOLEAN, d \in DataValues : Extract(ok, d) /\ UNCHANGED tvars
    \/ \E ok \in BOOLEAN, d \in DataValues : Transform(ok, d) /\ UNCHANGED tvars
    \/ \E ok \in BOOLEAN : LoadStage(ok) /\ UNCHANGED tvars
    \/ \E ok \in BOOLEAN : Check(ok) /\ UNCHANGED tvars
    \/ Clean /\ UNCHANGED tvars
    \/ \E tr \in TriggerResults : CleanCall(tr) /\ UNCHANGED tvars
    \/ \E path \in Paths : FileAppears(path) /\ UNCHANGED tvars

SpecPipe == Init /\ [][NextPipe]_vars

\* ------------------------------------------------------------------ claims
\* the record of pipeline n in the table of the single instance
Rec(n) == View(1)[n]
Called(op) == last'.op = op
Keys(pd) == {pd[j].name : j \in 1..Len(pd)}
\* the caller's defaults name field f for pipeline n
HasDefault(pd, n, f) ==
    \E j \in 1..Len(pd) : pd[j].name = n /\ \E k \in 1..Len(pd[j].val) : pd[j].val[k][1] = f

\* C1: update(p, "last trigger") at time now on a record with a configured
\* interval I and last trigger T0 stores T0 + floor((now - T0) / I) * I,
\* whatever the schedule field holds.
C1_IntervalFlooring ==
    [][(/\ Called("update")
        /\ last'.field = "last trigger"
        /\ last'.name \in DOMAIN tracking_data[1]
        /\ {"last trigger", "interval"} \subseteq DOMAIN Rec(last'.name)
        /\ Rec(last'.name)["interval"].k = "td"
        /\ Rec(last'.name)["interval"].v # 0)
       => LET T0 == Rec(last'.name)["last trigger"].v
              I == Rec(last'.name)["interval"].v
          IN  /\ last'.ok
              /\ View(1)'[last'.name]["last trigger"] = DT(T0 + FloorDiv(now' - T0, I) * I)]_vars

\* C2: update(p, "last trigger") on a record whose interval is null
\* completes without error and stores exactly the time of the call,
\* whatever the other fields hold.
C2_NoIntervalStoresNow ==
    [][(/\ Called("update")
        /\ last'.field = "last trigger"
        /\ last'.name \in DOMAIN tracking_data[1]
        /\ "interval" \in DOMAIN Rec(last'.name)
        /\ Rec(last'.name)["interval"] = None)
       => /\ last'.ok
          /\ View(1)'[last'.name]["last trigger"] = DT(now')]_vars

\* C3: a successful update(p, f) leaves every record other than p, and
\* every field of p other than f, as it was, in the table and in the
\* snapshot.
OthersKept(before, after, p, f) ==
    \A n \in DOMAIN before : \A g \in DOMAIN before[n] :
        (n # p \/ g # f) => (n \in DOMAIN after /\ g \in DOMAIN after[n] /\ after[n][g] = before[n][g])
C3_UpdateFrame ==
    [][(Called("update") /\ last'.ok)
       => /\ OthersKept(View(1), View(1)', last'.name, last'.field)
          /\ OthersKept(FileView, FileView', last'.name, last'.field)]_vars

\* C4: a name that load inserts gets the template defaults in every field
\* for which the caller gave no default for that name, in the table and in
\* the snapshot.
C4_FreshTemplateRecord ==
    (last.op = "load" /\ last.ok)
    => \A n \in last.new : \A f \in Fields :
          ~HasDefault(last.pd, n, f)
          => (Rec(n)[f] = Template0[f] /\ FileView[n][f] = Template0[f])

\* C5 as stated: load leaves every present non-null field of every record
\* of the snapshot as it was.
C5_NonNullKept ==
    [][(Called("load") /\ last'.ok)
       => \A n \in DOMAIN FileView : \A f \in DOMAIN FileView[n] :
             FileView[n][f] # None => FileView'[n][f] = FileView[n][f]]_vars

\* C5 amended: load leaves every present truthy field (not null, not a zero
\* interval, not an empty value) of every record of the snapshot as it was.
C5_TruthyKept ==
    [][(Called("load") /\ last'.ok)
       => \A n \in DOMAIN FileView : \A f \in DOMAIN FileView[n] :
             Truthy(FileView[n][f]) => FileView'[n][f] = FileView[n][f]]_vars

\* a load whose only default was refused: the record was there before, and
\* holds a truthy value other than the caller's
C5_Witness ==
    /\ last.op = "load" /\ last.ok
    /\ Len(last.pd) = 1 /\ Len(last.pd[1].val) = 1
    /\ last.pd[1].name \notin last.new
    /\ LET n == last.pd[1].name
           f == last.pd[1].val[1][1]
           v == last.pd[1].val[1][2]
       IN  Truthy(FileView[n][f]) /\ FileView[n][f] # v

\* C6: a successful load that repeats the arguments of the successful load
\* just before it leaves the snapshot as that load wrote it.
C6_LoadIdempotent ==
    [][(Called("load") /\ last'.ok /\ last'.again) => file' = file]_vars

\* a repeated load of two pipelines with defaults
C6_Witness ==
    /\ last.op = "load" /\ last.ok /\ last.again
    /\ Len(last.pd) = 2
    /\ \E j \in 1..2 : last.pd[j].val # <<>>

\* C7: after a successful load every name of pipeline_data has a record
\* holding all four fields, in the table and in the snapshot.
C7_KnownNamesComplete ==
    (last.op = "load" /\ last.ok)
    => \A n \in Keys(last.pd) :
          /\ n \in DOMAIN View(1) /\ Fields \subseteq DOMAIN Rec(n)
          /\ n \in DOMAIN FileView /\ Fields \subseteq DOMAIN FileView[n]

\* a load that inserted one name and completed the record of another
C7_Witness ==
    /\ last.op = "load" /\ last.ok
    /\ last.new # {} /\ last.filled # {}
    /\ \A n \in last.new \cup last.filled : Fields \subseteq DOMAIN Rec(n)

\* C8: after every successful load or update of the single instance the
\* snapshot is the whole in-memory table.
C8_SnapshotIsTable ==
    (last.op \in {"load", "update"} /\ last.ok) => FileView = View(1)

\* an update, through a record that is the template dictionary, after which
\* the snapshot holds the new value
C8_Witness ==
    /\ last.op = "update" /\ last.ok
    /\ tracking_data[1][last.name] = TemplateRef
    /\ FileView[last.name][last.field] = DT(now)
    /\ FileView = View(1)

\* C9: update for a name the table does not hold raises KeyError and
\* leaves the table, the template and the snapshot as they were.
C9_UnknownPipeline ==
    [][(Called("update") /\ last'.name \notin DOMAIN tracking_data[1])
       => /\ ~last'.ok /\ last'.err = "KeyError"
          /\ UNCHANGED <<template, file, constructed, tracking_data, heap>>]_vars

\* a failed update of a name that neither the table nor the snapshot holds
C9_Witness ==
    /\ last.op = "update" /\ ~last.ok /\ last.err = "KeyError"
    /\ 1 \in constructed
    /\ last.name \notin DOMAIN tracking_data[1]
    /\ file.exists /\ last.name \notin DOMAIN file.tab

\* C10: under a clock that never runs backward a successful
\* update(p, "last trigger") never moves the last trigger time backward, and
\* the value its interval-aligned branch writes is at most the time of the
\* call.
C10_TriggerMonotone ==
    [][(/\ Called("update") /\ last'.ok
        /\ last'.field = "last trigger"
        /\ "last trigger" \in DOMAIN Rec(last'.name))
       => LET old == Rec(last'.name)
              new == View(1)'[last'.name]
          IN  /\ new["last trigger"].v >= old["last trigger"].v
              /\ Truthy(old["schedule"]) => new["last trigger"].v <= now']_vars

\* ---------------------------------------------------------- Pipeline claims
Range(q) == {q[j] : j \in 1..Len(q)}
StageIndex(st) == CHOOSE j \in 1..Len(StageOrder) : StageOrder[j] = st
DefaultRun == pipe.built /\ ~pipe.run_func /\ run.call = "run"

\* C11: a default run invokes extract, transform, load, check and clean
\* once each and in that order, never skipping a stage or going back; the
\* data is there at transform, load and check and is gone when run returns.
C11_DefaultRunOrder ==
    DefaultRun
    => /\ run.calls = SubSeq(StageOrder, 1, Len(run.calls))
       /\ run.outcome = "running" => pc = StageOrder[Len(run.calls) + 1]
       /\ pc \in {"transform", "load", "check"} => data # Absent
       /\ run.outcome = "returned" => (run.calls = StageOrder /\ data = Absent /\ pc = "idle")

\* a default run that returned after inserting data and removing a target
C11_Witness ==
    /\ DefaultRun /\ run.outcome = "returned"
    /\ run.inserted # Absent /\ run.removed # {}

\* C12: when extract, transform, load or check raises, the run ends there:
\* the stages invoked are those up to the failing one, each once, and no
\* stage, clean included, is left to execute.
C12_StageFailureAborts ==
    (run.call = "run" /\ run.failed \in {"extract", "transform", "load", "check"})
    => /\ run.outcome = "raised"
       /\ pc = "idle"
       /\ run.calls = SubSeq(StageOrder, 1, StageIndex(run.failed))

\* a run that load ended, its data and its target left behind
C12_Witness ==
    /\ run.call = "run" /\ run.failed = "load"
    /\ data # Absent
    /\ Range(run.tr.paths) \cap fs # {}

\* C13: in default mode the data is absent whenever a run is about to
\* extract and after clean has returned, and present at transform, load and
\* check, over any sequence of runs that complete or abort.
C13_DataLifecycle ==
    (pipe.built /\ ~pipe.run_func)
    => /\ pc = "extract" => data = Absent
       /\ (run.outcome = "returned" /\ pc = "idle") => data = Absent
       /\ pc \in {"transform", "load", "check"} => data # Absent

\* C14: with a custom run function, run calls that function once and no
\* stage, and neither sets nor clears the data nor removes a file.
C14_CustomRunOnly ==
    [][(pipe.built /\ pipe.run_func /\ run'.call = "run" /\ run' # run)
       => /\ data' = data /\ fs' = fs
          /\ pc' \in {"run_func", "idle"}
          /\ run'.calls = IF pc' = "run_func" THEN <<>> ELSE <<"run_func">>]_vars

\* a custom run that returned with an existing target left in place
C14_Witness ==
    /\ pipe.run_func /\ run.call = "run" /\ run.outcome = "returned"
    /\ run.calls = <<"run_func">>
    /\ Range(run.tr.paths) \cap fs # {}

\* C15: clean, given a collection of paths, removes exactly the listed
\* paths that exist, raises nothing for a missing or repeated one, and
\* deletes the data.
CleanStep == pc = "clean" \/ (pc = "idle" /\ run'.call = "clean" /\ fs' \subseteq fs)
CleanArg == IF pc = "clean" THEN run.tr ELSE run'.tr
C15_CleanBestEffort ==
    [][(pipe.built /\ CleanStep /\ CleanArg.iter)
       => /\ run'.outcome = "returned"
          /\ fs' = fs \ Range(CleanArg.paths)
          /\ data' = Absent]_vars

\* a clean that removed one listed path, passed over a listed one that did
\* not exist and left another file alone
C15_Witness ==
    /\ run.outcome = "returned" /\ run.calls # <<>>
    /\ run.calls[Len(run.calls)] = "clean"
    /\ run.removed # {}
    /\ Range(run.tr.paths) \ run.removed # {}
    /\ fs # {}

\* C16: the loader that load() makes is the class passed as loaderObj.
C16_LoaderIsArgument ==
    run.loader # "" => run.loader = pipe.loaderArg

\* ------------------------------------------------------ two calls, two stores
\* C17: once update(p, "last trigger") has written the boundary B of a
\* record with interval I at a time in [B, B+I), a second such call at a
\* later time still before B+I leaves the last trigger at B.
C17_SameWindowIdempotent ==
    [][(/\ last.op = "update" /\ last.ok /\ last.field = "last trigger"
        /\ Called("update") /\ last'.field = "last trigger"
        /\ last'.name = last.name
        /\ Rec(last.name)["interval"].k = "td"
        /\ Rec(last.name)["interval"].v > 0
        /\ Rec(last.name)["last trigger"].v <= now
        /\ now <= now'
        /\ now' < Rec(last.name)["last trigger"].v + Rec(last.name)["interval"].v)
       => /\ last'.ok
          /\ View(1)'[last.name]["last trigger"] = Rec(last.name)["last trigger"]]_vars

\* C18: a load that finds no snapshot raises nothing of its own: it reads
\* twice (one retry), and ends with the table, the snapshot and the error, if
\* any, of a load that found a snapshot holding only the placeholder entry
\* with the template's defaults; that entry is in the snapshot it leaves.
PlaceholderFile ==
    [exists |-> TRUE,
     tab |-> (Placeholder :> Placeholder),
     obj |-> (Placeholder :> Template0)]
C18_MissingSnapshotRecovered ==
    [][(Called("load") /\ ~file.exists)
       => LET r == Reconcile(PlaceholderFile, template, last'.pd) IN
          /\ last'.reads = 2
          /\ last'.ok = ~r.st.err
          /\ Placeholder \in DOMAIN FileView'
          /\ FileView'[Placeholder] = Template0
          /\ template' = r.st.tpl
          /\ IF r.st.err
             THEN /\ file' = PlaceholderFile
                  /\ UNCHANGED <<tracking_data, heap>>
             ELSE /\ file' = Dump(r.st.tab, r.st.ob, r.st.tpl)
                  /\ DOMAIN FileView' = {Placeholder} \cup Keys(last'.pd)
                  /\ tracking_data'[last'.inst] = r.st.tab
                  /\ heap'[last'.inst] = r.st.ob]_vars

\* a load that found no snapshot and made records for two pipelines
C18_Witness ==
    /\ last.op = "load" /\ last.ok /\ last.reads = 2
    /\ Len(last.pd) = 2
    /\ DOMAIN FileView = {Placeholder} \cup Keys(last.pd)

\* C19: update reads the snapshot before it writes: the snapshot after a
\* successful update(p, f) is the snapshot of just before with only field f
\* of record p changed, whichever instance wrote that snapshot.
C19_UpdateRewritesSnapshot ==
    [][(Called("update") /\ last'.ok)
       => /\ DOMAIN FileView' = DOMAIN FileView
          /\ OthersKept(FileView, FileView', last'.name, last'.field)]_vars

\* C19, as the code has it: update does not read the snapshot. Its error
\* and its new table come from the calling instance's table alone, and the
\* snapshot it writes is that whole table, whatever the snapshot held.
C19_UpdateWritesOwnTable ==
    [][Called("update")
       => LET i == last'.inst
              u == UpdateEffect(tracking_data[i], heap[i], template,
                                last'.name, last'.field, now')
          IN  /\ last'.err = u.err
              /\ IF u.err # ""
                 THEN UNCHANGED <<file, tracking_data, heap, template>>
                 ELSE /\ tracking_data'[i] = u.tab /\ heap'[i] = u.ob /\ template' = u.tpl
                      /\ file' = Dump(u.tab, u.ob, u.tpl)
                      /\ FileView' = TableView(u.tab, u.ob, u.tpl)]_vars

\* an update by an instance whose table differs from the other instance's,
\* the snapshot now being the writer's table
C19_Witness ==
    /\ last.op = "update" /\ last.ok
    /\ constructed = Insts
    /\ FileView = View(last.inst)
    /\ \E j \in Insts \ {last.inst} : DOMAIN View(j) # DOMAIN View(last.inst)

\* C20: nothing guards the snapshot against a stale writer. An update by an
\* instance whose record has every field and no schedule succeeds whatever
\* the snapshot holds, and afterwards the snapshot is that instance's table:
\* a name it does not hold is gone, and a field the call did not write has
\* the value the writer's table had, not the one in the snapshot.
C20_LastWriterWins ==
    [][(/\ Called("update")
        /\ last'.name \in DOMAIN View(last'.inst)
        /\ Fields \subseteq DOMAIN View(last'.inst)[last'.name]
        /\ ~Truthy(View(last'.inst)[last'.name]["schedule"]))
       => LET i == last'.inst IN
          /\ last'.ok
          /\ DOMAIN FileView' = DOMAIN View(i)
          /\ \A n \in DOMAIN View(i) : \A g \in DOMAIN View(i)[n] :
                g # last'.field => FileView'[n][g] = View(i)[n][g]]_vars

\* two updates in a row, neither raising: the first by one instance, the
\* second by the other to another record; the snapshot is the second
\* writer's table and no longer has what the first one wrote
C20_Witness ==
    /\ last.op = "update" /\ last.ok
    /\ last.over # <<>>
    /\ last.over # <<last.name, last.field>>
    /\ FileView = View(last.inst)
    /\ \E j \in Insts \ {last.inst} :
          /\ last.over[1] \in DOMAIN View(j)
          /\ View(j)[last.over[1]][last.over[2]] = DT(now)
          /\ \/ last.over[1] \notin DOMAIN FileView
             \/ last.over[2] \notin DOMAIN FileView[last.over[1]]
             \/ FileView[last.over[1]][last.over[2]] # DT(now)

====
